---- MODULE Spec2Model ----
(***************************************************************************)
(* Item resource service of src/app.py: FastAPI handlers over one          *)
(* SQLAlchemy-mapped SQLite table "items".                                 *)
(*                                                                         *)
(* Spec      requests handled one after another, one action per handler.   *)
(* SpecConc  handlers of several worker threads interleaved at their       *)
(*           store accesses (lookup SELECT, commit, refresh SELECT).       *)
(* FairSpec  SpecConc with every started handler running to its end.       *)
(***************************************************************************)
EXTENDS Integers, Sequences, FiniteSets, TLC

VARIABLES
    items,      \* table "items": rowid -> row, domain = the rowids present
    created,    \* history: ids returned by successful Creates, in order
    deleted,    \* history: ids of successful Deletes, in order
    fresh,      \* history: <<[id, body]>> of the latest successful Create while
                \*   no Update/Delete request addressed its id since, else <<>>
    lastReq,    \* Spec: the request handled last
    lastResp,   \* Spec: its response
    prevItems,  \* Spec: the table before that request
    pc,         \* SpecConc: worker -> position in its handler
    wreq,       \* SpecConc: worker -> request being handled
    loaded,     \* SpecConc: worker -> object its session loaded (<<>> = None)
    wresp,      \* SpecConc: worker -> response decided
    session     \* SpecConc: worker -> its get_db session is open

vars == <<items, created, deleted, fresh, lastReq, lastResp, prevItems,
          pc, wreq, loaded, wresp, session>>
seqVars == <<created, deleted, fresh, lastReq, lastResp, prevItems>>
concVars == <<pc, wreq, loaded, wresp, session>>

---------------------------------------------------------------------------
(* Bounds and input domains *)

MaxCreates == 2     \* Spec: Creates accepted
MaxRows == 1        \* SpecConc: highest rowid a Create may be assigned

Names == {"a", "b"}
Descs == {"d"}
Prices == {-1, 2}
Ids == 1..(MaxCreates + 1)
Workers == {"t1", "t2"}

---------------------------------------------------------------------------
(* Request bodies and the pydantic models *)

Fields == {"name", "description", "price"}
Required == {"name", "price"}

NoField == [f \in {} |-> ""]

\* JSON bodies that validate: name and price present, description optional.
ValidBodies ==
    { ("name" :> n) @@ d @@ ("price" :> p) :
        n \in Names,
        d \in {NoField} \cup {("description" :> x) : x \in Descs},
        p \in Prices }

\* JSON bodies that lack a required field: one per set of fields left out.
InvalidBodies ==
    { NoField, ("name" :> "a"), ("price" :> 2),
      ("name" :> "a") @@ ("description" :> "d"),
      ("description" :> "d") @@ ("price" :> 2) }

RawBodies == ValidBodies \cup InvalidBodies

\* Bodies and ids of the requests of SpecConc.
ConcBodies == {b \in ValidBodies : "description" \notin DOMAIN b} \cup {NoField}
ConcIds == 1..MaxRows

\* Fields whose absence makes ItemCreate fail to validate.
MissingFields(raw) == Required \ DOMAIN raw

\* Variant: the description default is lost and the name is stored in its place.
ItemCreateWrongDefault(raw) ==
    [name |-> raw["name"],
     description |-> IF "description" \in DOMAIN raw THEN raw["description"]
                     ELSE raw["name"],
     price |-> raw["price"]]

ItemCreate(raw) ==
    [name |-> raw["name"],
     description |-> IF "description" \in DOMAIN raw THEN raw["description"] ELSE "",
     price |-> raw["price"]]

ItemResponse(id, row) ==
    [id |-> id, name |-> row.name, description |-> row.description,
     price |-> row.price]

---------------------------------------------------------------------------
(* Responses *)

NotFound == [code |-> 404, detail |-> "Item not found"]
Unprocessable(raw) == [code |-> 422, missing |-> MissingFields(raw)]
ItemOk(code, id, row) == [code |-> code, item |-> ItemResponse(id, row)]
ServerError(e) == [code |-> 500, error |-> e]
NoResp == [code |-> 0]
NoReq == [op |-> "none"]

---------------------------------------------------------------------------
(* The store: SQLite table behind the Item mapping *)

Max(S) == CHOOSE x \in S : \A y \in S : y <= x

\* INTEGER PRIMARY KEY without AUTOINCREMENT: the rowid SQLite assigns.
NextRowid(tbl) == IF DOMAIN tbl = {} THEN 1 ELSE Max(DOMAIN tbl) + 1

Insert(tbl, row) ==
    LET id == NextRowid(tbl)
    IN  [i \in DOMAIN tbl \cup {id} |-> IF i = id THEN row ELSE tbl[i]]

\* Variant: the filter on Item.id is dropped, first() returns the first row.
QueryUnfiltered(tbl, id) ==
    IF DOMAIN tbl = {} THEN <<>>
    ELSE <<tbl[CHOOSE x \in DOMAIN tbl : \A y \in DOMAIN tbl : x <= y]>>

\* db.query(Item).filter(Item.id == item_id).first(); <<>> is None.
Query(tbl, id) == IF id \in DOMAIN tbl THEN <<tbl[id]>> ELSE <<>>

\* Attributes whose assigned value differs from the loaded one: the columns
\* the unit of work puts in the UPDATE's SET clause.
Dirty(obj, b) == {f \in Fields : obj[f] # b[f]}

\* UPDATE items SET <dirty columns> WHERE id = :id
FlushUpdate(tbl, id, obj, b) ==
    IF id \in DOMAIN tbl
    THEN [tbl EXCEPT ![id] =
            [f \in Fields |-> IF f \in Dirty(obj, b) THEN b[f] ELSE @[f]]]
    ELSE tbl

\* DELETE FROM items WHERE id = :id
FlushDelete(tbl, id) == [i \in DOMAIN tbl \ {id} |-> tbl[i]]

RECURSIVE RowsFrom(_, _)
RowsFrom(tbl, ids) ==
    IF ids = {} THEN <<>>
    ELSE LET lo == CHOOSE x \in ids : \A y \in ids : x <= y
         IN  <<ItemResponse(lo, tbl[lo])>> \o RowsFrom(tbl, ids \ {lo})

\* db.query(Item).all(): every row, in rowid order.
QueryAll(tbl) == RowsFrom(tbl, DOMAIN tbl)

---------------------------------------------------------------------------
(* The handlers, each as the table and response it produces when it runs   *)
(* with no other request in between.  Each runs inside one get_db session. *)

root == [code |-> 200, status |-> "ok", message |-> "FastAPI + SQLAlchemy MVP"]

create_item(tbl, raw) ==
    IF MissingFields(raw) # {}
    THEN [items |-> tbl, resp |-> Unprocessable(raw)]
    ELSE LET id == NextRowid(tbl)
             committed == Insert(tbl, ItemCreate(raw))
             refreshed == Query(committed, id)
         IN  [items |-> committed, resp |-> ItemOk(201, id, refreshed[1])]

read_items(tbl) == [items |-> tbl, resp |-> [code |-> 200, items |-> QueryAll(tbl)]]

read_item(tbl, item_id) ==
    LET item == Query(tbl, item_id)
    IN  IF item = <<>>
        THEN [items |-> tbl, resp |-> NotFound]
        ELSE [items |-> tbl, resp |-> ItemOk(200, item_id, item[1])]

\* Variant: merge semantics, an omitted description keeps the stored one.
update_item_merge(tbl, item_id, raw) ==
    IF MissingFields(raw) # {}
    THEN [items |-> tbl, resp |-> Unprocessable(raw)]
    ELSE LET db_item == Query(tbl, item_id)
         IN  IF db_item = <<>>
             THEN [items |-> tbl, resp |-> NotFound]
             ELSE LET b == [ItemCreate(raw) EXCEPT !.description =
                               IF "description" \in DOMAIN raw THEN @
                               ELSE db_item[1].description]
                      committed == FlushUpdate(tbl, item_id, db_item[1], b)
                      refreshed == Query(committed, item_id)
                  IN  [items |-> committed,
                       resp |-> ItemOk(200, item_id, refreshed[1])]

\* Variant: a missing row is written before the request is answered 404.
update_item_upsert(tbl, item_id, raw) ==
    IF MissingFields(raw) # {}
    THEN [items |-> tbl, resp |-> Unprocessable(raw)]
    ELSE LET db_item == Query(tbl, item_id)
         IN  IF db_item = <<>>
             THEN [items |-> [i \in DOMAIN tbl \cup {item_id} |->
                                IF i = item_id THEN ItemCreate(raw) ELSE tbl[i]],
                   resp |-> NotFound]
             ELSE LET committed == FlushUpdate(tbl, item_id, db_item[1], ItemCreate(raw))
                      refreshed == Query(committed, item_id)
                  IN  [items |-> committed,
                       resp |-> ItemOk(200, item_id, refreshed[1])]

update_item(tbl, item_id, raw) ==
    IF MissingFields(raw) # {}
    THEN [items |-> tbl, resp |-> Unprocessable(raw)]
    ELSE LET db_item == Query(tbl, item_id)
         IN  IF db_item = <<>>
             THEN [items |-> tbl, resp |-> NotFound]
             ELSE LET committed == FlushUpdate(tbl, item_id, db_item[1], ItemCreate(raw))
                      refreshed == Query(committed, item_id)
                  IN  [items |-> committed,
                       resp |-> ItemOk(200, item_id, refreshed[1])]

\* Variant: the delete is never committed, the row stays.
delete_item_uncommitted(tbl, item_id) ==
    LET db_item == Query(tbl, item_id)
    IN  IF db_item = <<>>
        THEN [items |-> tbl, resp |-> NotFound]
        ELSE [items |-> tbl, resp |-> [code |-> 200, detail |-> "Item deleted"]]

delete_item(tbl, item_id) ==
    LET db_item == Query(tbl, item_id)
    IN  IF db_item = <<>>
        THEN [items |-> tbl, resp |-> NotFound]
        ELSE [items |-> FlushDelete(tbl, item_id),
              resp |-> [code |-> 200, detail |-> "Item deleted"]]

---------------------------------------------------------------------------
(* Spec: one request at a time *)

\* The latest Create's record stops being fresh once a request addresses its id.
Addressed(f, id) == IF f # <<>> /\ f[1].id = id THEN <<>> ELSE f

EmptyTable == [i \in {} |-> [name |-> "", description |-> "", price |-> 0]]

Init ==
    /\ items = EmptyTable
    /\ created = <<>>
    /\ deleted = <<>>
    /\ fresh = <<>>
    /\ lastReq = NoReq
    /\ lastResp = NoResp
    /\ prevItems = EmptyTable
    /\ pc = [w \in Workers |-> "idle"]
    /\ wreq = [w \in Workers |-> NoReq]
    /\ loaded = [w \in Workers |-> <<>>]
    /\ wresp = [w \in Workers |-> NoResp]
    /\ session = [w \in Workers |-> FALSE]

Handled(req, out) ==
    /\ lastReq' = req
    /\ lastResp' = out.resp
    /\ prevItems' = items
    /\ items' = out.items
    /\ UNCHANGED concVars

Root ==
    /\ Handled([op |-> "root"], [items |-> items, resp |-> root])
    /\ UNCHANGED <<created, deleted, fresh>>

CreateItem ==
    /\ Len(created) < MaxCreates
    /\ \E raw \in RawBodies :
         LET out == create_item(items, raw)
         IN  /\ Handled([op |-> "create", body |-> raw], out)
             /\ IF out.resp.code = 201
                THEN /\ created' = Append(created, out.resp.item.id)
                     /\ fresh' = <<[id |-> out.resp.item.id, body |-> raw]>>
                ELSE UNCHANGED <<created, fresh>>
             /\ UNCHANGED deleted

ReadItems ==
    /\ Handled([op |-> "list"], read_items(items))
    /\ UNCHANGED <<created, deleted, fresh>>

ReadItem ==
    \E id \in Ids :
       /\ Handled([op |-> "get", id |-> id], read_item(items, id))
       /\ UNCHANGED <<created, deleted, fresh>>

UpdateItem ==
    \E id \in Ids, raw \in RawBodies :
       /\ Handled([op |-> "update", id |-> id, body |-> raw],
                  update_item(items, id, raw))
       /\ fresh' = Addressed(fresh, id)
       /\ UNCHANGED <<created, deleted>>

DeleteItem ==
    \E id \in Ids :
       LET out == delete_item(items, id)
       IN  /\ Handled([op |-> "delete", id |-> id], out)
           /\ deleted' = IF out.resp.code = 200 THEN Append(deleted, id) ELSE deleted
           /\ fresh' = Addressed(fresh, id)
           /\ UNCHANGED created

Next == Root \/ CreateItem \/ ReadItems \/ ReadItem \/ UpdateItem \/ DeleteItem

Spec == Init /\ [][Next]_vars

---------------------------------------------------------------------------
(* SpecConc: handlers of concurrent requests, one step per store access.   *)
(* A handler's session reads committed rows at its SELECT and keeps the    *)
(* object it loaded; commit() flushes the pending INSERT, UPDATE or DELETE *)
(* and commits it as one write transaction of the SQLite file.             *)

Requests ==
    {[op |-> "root"], [op |-> "list"]}
    \cup {[op |-> "create", body |-> b] : b \in ConcBodies}
    \cup {[op |-> o, id |-> i] : o \in {"get", "delete"}, i \in ConcIds}
    \cup {[op |-> "update", id |-> i, body |-> b] : i \in ConcIds, b \in ConcBodies}

HasBody(r) == r.op \in {"create", "update"}

\* Creates accepted and not yet committed.
PendingCreates ==
    Cardinality({w \in Workers : pc[w] = "handler" /\ wreq[w].op = "create"})

Goto(w, where) == pc' = [pc EXCEPT ![w] = where]

\* The handler returns or raises: the response is decided, and of the request
\* only the operation is kept.
Respond(w, op, r) ==
    /\ wresp' = [wresp EXCEPT ![w] = r]
    /\ wreq' = [wreq EXCEPT ![w] = [op |-> op]]
    /\ loaded' = [loaded EXCEPT ![w] = <<>>]
    /\ Goto(w, "respond")

\* A request arrives: get_db opens the session, the body is validated.
Begin(w) ==
    /\ pc[w] = "idle"
    /\ \E r \in Requests :
         /\ r.op = "create" => NextRowid(items) + PendingCreates <= MaxRows
         /\ session' = [session EXCEPT ![w] = (r.op # "root")]
         /\ IF r.op = "root"
            THEN Respond(w, r.op, root)
            ELSE IF HasBody(r) /\ MissingFields(r.body) # {}
            THEN Respond(w, r.op, Unprocessable(r.body))
            ELSE /\ wreq' = [wreq EXCEPT ![w] = r]
                 /\ Goto(w, "handler")
                 /\ UNCHANGED <<wresp, loaded>>
    /\ UNCHANGED <<items, seqVars>>

\* read_items: db.query(Item).all()
ListQuery(w) ==
    /\ pc[w] = "handler"
    /\ wreq[w].op = "list"
    /\ Respond(w, "list", read_items(items).resp)
    /\ UNCHANGED <<items, session, seqVars>>

\* read_item, update_item, delete_item: the lookup and the None check.
Lookup(w) ==
    /\ pc[w] = "handler"
    /\ wreq[w].op \in {"get", "update", "delete"}
    /\ LET found == Query(items, wreq[w].id)
       IN  IF found = <<>>
           THEN Respond(w, wreq[w].op, NotFound)
           ELSE IF wreq[w].op = "get"
           THEN Respond(w, "get", ItemOk(200, wreq[w].id, found[1]))
           ELSE /\ loaded' = [loaded EXCEPT ![w] = <<ItemResponse(wreq[w].id, found[1])>>]
                /\ Goto(w, "commit")
                /\ UNCHANGED <<wreq, wresp>>
    /\ UNCHANGED <<items, session, seqVars>>

\* create_item: db.add(db_item); db.commit()
CreateCommit(w) ==
    /\ pc[w] = "handler"
    /\ wreq[w].op = "create"
    /\ items' = Insert(items, ItemCreate(wreq[w].body))
    /\ loaded' = [loaded EXCEPT ![w] =
                    <<ItemResponse(NextRowid(items), ItemCreate(wreq[w].body))>>]
    /\ Goto(w, "refresh")
    /\ UNCHANGED <<wreq, wresp, session, seqVars>>

\* update_item: the three assignments and db.commit().  Nothing is flushed
\* when no attribute changed; an UPDATE that matches no row raises
\* StaleDataError and the transaction is rolled back.
UpdateCommit(w) ==
    /\ pc[w] = "commit"
    /\ wreq[w].op = "update"
    /\ LET obj == loaded[w][1]
           b == ItemCreate(wreq[w].body)
       IN  IF Dirty(obj, b) = {}
           THEN Goto(w, "refresh") /\ UNCHANGED <<items, wreq, wresp, loaded>>
           ELSE IF wreq[w].id \notin DOMAIN items
           THEN Respond(w, "update", ServerError("StaleDataError")) /\ UNCHANGED items
           ELSE /\ items' = FlushUpdate(items, wreq[w].id, obj, b)
                /\ Goto(w, "refresh")
                /\ UNCHANGED <<wreq, wresp, loaded>>
    /\ UNCHANGED <<session, seqVars>>

\* delete_item: db.delete(db_item); db.commit().  A DELETE that matches no
\* row is only warned about.
DeleteCommit(w) ==
    /\ pc[w] = "commit"
    /\ wreq[w].op = "delete"
    /\ items' = FlushDelete(items, wreq[w].id)
    /\ Respond(w, "delete", [code |-> 200, detail |-> "Item deleted"])
    /\ UNCHANGED <<session, seqVars>>

\* create_item, update_item: db.refresh(db_item) and the return.
Refresh(w) ==
    /\ pc[w] = "refresh"
    /\ LET id == loaded[w][1].id
           row == Query(items, id)
       IN  IF row = <<>>
           THEN Respond(w, wreq[w].op, ServerError("InvalidRequestError"))
           ELSE Respond(w, wreq[w].op,
                        ItemOk(IF wreq[w].op = "create" THEN 201 ELSE 200, id, row[1]))
    /\ UNCHANGED <<items, session, seqVars>>

\* Variant: no try/finally, a handler that raised leaves its session open.
FinishCloseOnSuccess(w) ==
    /\ pc[w] = "respond"
    /\ session' = [session EXCEPT ![w] = @ /\ wresp[w].code >= 400]
    /\ wreq' = [wreq EXCEPT ![w] = NoReq]
    /\ wresp' = [wresp EXCEPT ![w] = NoResp]
    /\ Goto(w, "idle")
    /\ UNCHANGED <<items, loaded, seqVars>>

\* The response is out: the finally clause of get_db closes the session.
Finish(w) ==
    /\ pc[w] = "respond"
    /\ session' = [session EXCEPT ![w] = FALSE]
    /\ wreq' = [wreq EXCEPT ![w] = NoReq]
    /\ wresp' = [wresp EXCEPT ![w] = NoResp]
    /\ Goto(w, "idle")
    /\ UNCHANGED <<items, loaded, seqVars>>

Run(w) ==
    \/ ListQuery(w) \/ Lookup(w) \/ CreateCommit(w) \/ UpdateCommit(w)
    \/ DeleteCommit(w) \/ Refresh(w) \/ Finish(w)

NextConc == \E w \in Workers : Begin(w) \/ Run(w)

SpecConc == Init /\ [][NextConc]_vars

\* A handler that has started runs on its thread until its response is out.
FairSpec == SpecConc /\ \A w \in Workers : WF_vars(Run(w))

---------------------------------------------------------------------------
(* Properties of Spec *)

Range(q) == {q[i] : i \in DOMAIN q}

\* What a client expects back for a submitted body: its own fields, and the
\* empty string for a description it left out.
Expected(id, raw) ==
    [id |-> id, name |-> raw["name"],
     description |-> IF "description" \in DOMAIN raw THEN raw["description"] ELSE "",
     price |-> raw["price"]]

AddressesId == lastReq.op \in {"get", "update", "delete"}
ValidRequest == lastResp.code # 422

\* C1: the id a Create returns differs from the id every earlier Create
\* returned, also when the Item of the earlier Create has been deleted.
C1_IdsNeverReused ==
    \A i, j \in DOMAIN created : i # j => created[i] # created[j]

\* C2: a Create returns the submitted fields under an id of a persisted row,
\* with the empty string for an omitted description; a Get of that id, with no
\* Update or Delete request to the id since the Create, returns the same.
C2_CreateThenGet ==
    /\ (lastReq.op = "create" /\ lastResp.code = 201) =>
          /\ lastResp.item.id \in DOMAIN items
          /\ lastResp.item = Expected(lastResp.item.id, lastReq.body)
    /\ (lastReq.op = "get" /\ fresh # <<>> /\ lastReq.id = fresh[1].id) =>
          lastResp = [code |-> 200, item |-> Expected(fresh[1].id, fresh[1].body)]

C2_Witness ==
    /\ lastReq.op = "get"
    /\ fresh # <<>>
    /\ lastReq.id = fresh[1].id
    /\ "description" \notin DOMAIN fresh[1].body
    /\ lastResp.code = 200
    /\ lastResp.item.description = ""

\* C3: Get, Update and Delete on an id no Create has returned answer 404
\* "Item not found" (for a body that validates).
C3_NeverIssuedNotFound ==
    (AddressesId /\ ValidRequest /\ lastReq.id \notin Range(created)) =>
        lastResp = NotFound

C3_Witness ==
    /\ lastReq.op = "update"
    /\ lastReq.id \notin Range(created)
    /\ items # EmptyTable
    /\ lastResp = NotFound

\* C4: once Delete(id) has succeeded, every later Get(id) answers 404 and no
\* later List contains a record with that id.
C4_DeletedStaysGone ==
    /\ (lastReq.op = "get" /\ lastReq.id \in Range(deleted)) => lastResp = NotFound
    /\ lastReq.op = "list" =>
          \A k \in DOMAIN lastResp.items : lastResp.items[k].id \notin Range(deleted)

C9_NotFoundNoMutation ==
    (AddressesId /\ lastResp = NotFound) => items = prevItems

C9_Witness ==
    /\ lastReq.op \in {"update", "delete"}
    /\ lastResp = NotFound
    /\ items # EmptyTable

---------------------------------------------------------------------------
(* Properties of SpecConc and FairSpec *)

\* C7: whatever the interleaving, a Get, Update or Delete with a valid body
\* ends in success or in 404, as it does in every serial order of the
\* requests, also when another request deletes its id between its lookup
\* and its commit.
C7_SuccessOrNotFound ==
    \A w \in Workers :
        (pc[w] = "respond" /\ wreq[w].op \in {"get", "update", "delete"}) =>
            wresp[w].code \in {200, 404, 422}

\* C8: when the commit of an Update writes the record, the stored name,
\* description and price are afterwards all three those of that Update's
\* input, never a mix with the fields another Update wrote.
C8_LastWriterWins ==
    [][\A w \in Workers :
          (/\ pc[w] = "commit"
           /\ wreq[w].op = "update"
           /\ pc'[w] = "refresh"
           /\ items' # items)
          => items'[wreq[w].id] = ItemCreate(wreq[w].body)]_vars

\* C10: a request never rests with its session open, and every session that
\* get_db opened is closed again, after a normal return and after a 404.
C10_SessionReleased ==
    /\ [](\A w \in Workers : pc[w] = "idle" => ~session[w])
    /\ \A w \in Workers : session[w] ~> ~session[w]

C10_Witness ==
    \E w \in Workers :
        /\ session[w]
        /\ pc[w] = "respond"
        /\ wresp[w] = NotFound

====
